---- MODULE Spec2Model ----
(***************************************************************************)
(* The lazy query engine of the rune compiler (crates/rune/src/query.rs):  *)
(* the Index (Query.indexed), the Meta cache (the unit's meta), the build  *)
(* queue (Query.queue), and the drive loop that drains them.               *)
(***************************************************************************)
EXTENDS Integers, Sequences, FiniteSets, TLC

(***************************************************************************)
(* Bounds of the model.                                                    *)
(***************************************************************************)
\* The most meta queries the emitter issues while it emits one BuildEntry.
MaxEmitQueries == 1

(***************************************************************************)
(* Values.                                                                 *)
(***************************************************************************)
\* enum Used
UsedValues == {"Used", "Unused"}

\* Mutant: every query counts as unused.
IsUnusedAlways(used) == TRUE

\* Used::is_unused
IsUnused(used) == used = "Unused"

\* Item -> Hash digest (Hash::type_hash), one number per item of the programs.
ItemSeq ==
    << "foo", "E", "E::B", "E::C", "S", "main", "main::c0", "main::b0",
       "K", "A", "B", "C", "ghost", "main::c1", "main::c2", "main::c3",
       "main::c4", "Z", "W", "E::A", "T", "main::c5" >>

TypeHash(item) == CHOOSE n \in 1..Len(ItemSeq) : ItemSeq[n] = item

\* The source every declaration of the programs lives in (source id 0).
MainSource == [path |-> "main.rn"]

\* Bodies of structs and variants (ast::ItemStructBody, ast::ItemVariantBody).
EmptyBody == [shape |-> "EmptyBody"]
TupleBody(fields) == [shape |-> "TupleBody", fields |-> fields]
StructBody(fields) == [shape |-> "StructBody", fields |-> fields]

\* enum Indexed
IndexedEnum == [tag |-> "Enum"]
IndexedStruct(body) == [tag |-> "Struct", ast |-> body]
IndexedVariant(enum_item, body) ==
    [tag |-> "Variant", enum_item |-> enum_item, ast |-> body]
IndexedFunction(call) == [tag |-> "Function", call |-> call]
IndexedClosure(ast, captures, call) ==
    [tag |-> "Closure", ast |-> ast, captures |-> captures, call |-> call]
IndexedAsyncBlock(captures, call) ==
    [tag |-> "AsyncBlock", captures |-> captures, call |-> call]
IndexedConst(ir) == [tag |-> "Const", ir |-> ir]

\* ast::FnArg: the parameters of a closure.
ArgSelf == [kind |-> "SelfValue"]
ArgIdent(name) == [kind |-> "Ident", name |-> name]
ArgIgnore == [kind |-> "Ignore"]

\* The expressions a closure body is made of: a literal, a local variable.
ExprLit(v) == [kind |-> "Lit", value |-> v]
ExprVar(name) == [kind |-> "Var", name |-> name]

\* ast::ExprClosure: the parameters and the body.
ExprClosure(args, body) == [args |-> args, body |-> body]

\* The IR of constant expressions: a literal, a reference to a const item,
\* a division by zero, a sum.
IrLit(v) == [op |-> "Lit", value |-> v]
IrRef(item) == [op |-> "Ref", item |-> item]
IrDivZero == [op |-> "DivZero"]
IrAdd(lhs, rhs) == [op |-> "Add", lhs |-> lhs, rhs |-> rhs]

\* struct IndexedEntry; the span is the offset of the declaration in the
\* source, so that the order of the spans is the order of declaration.
Entry(span, indexed) ==
    [span |-> span, source |-> MainSource, source_id |-> 0, indexed |-> indexed]

\* One declaration of a program: the item it declares and its IndexedEntry.
Decl(item, span, indexed) == [item |-> item, entry |-> Entry(span, indexed)]

(***************************************************************************)
(* The programs the model compiles: each a set of declarations.            *)
(***************************************************************************)
\* two `fn foo()` and a third definition of foo
ProgDup ==
    { Decl("foo", 1, IndexedFunction("Immediate")),
      Decl("foo", 2, IndexedFunction("Immediate")),
      Decl("foo", 3, IndexedStruct(EmptyBody)) }

\* enum E { B(i64), C { a, b } } and struct S { a, a }
ProgEnum ==
    { Decl("E", 1, IndexedEnum),
      Decl("E::B", 2, IndexedVariant("E", TupleBody(<<"i64">>))),
      Decl("E::C", 3, IndexedVariant("E", StructBody(<<"a", "b">>))),
      Decl("S", 4, IndexedStruct(StructBody(<<"a", "a">>))) }

\* fn main with a closure capturing x and an async block, and a const
ProgFn ==
    { Decl("main", 1, IndexedFunction("Immediate")),
      Decl("main::c0", 2,
           IndexedClosure(ExprClosure(<<>>, ExprVar("x")), <<"x">>, "Immediate")),
      Decl("main::b0", 3, IndexedAsyncBlock(<<"x">>, "Async")),
      Decl("K", 4, IndexedConst(IrLit(7))) }

\* const A = 1; const B = A; const C = 1 / 0;
ProgConst ==
    { Decl("A", 1, IndexedConst(IrLit(1))),
      Decl("B", 2, IndexedConst(IrRef("A"))),
      Decl("C", 3, IndexedConst(IrDivZero)) }

\* the closures || 1, |a, _| y (capturing x and y) and |_| 1
ProgClosure ==
    { Decl("main::c1", 1,
           IndexedClosure(ExprClosure(<<>>, ExprLit(1)), <<>>, "Immediate")),
      Decl("main::c2", 2,
           IndexedClosure(ExprClosure(<<ArgIdent("a"), ArgIgnore>>, ExprVar("y")),
                          <<"x", "y">>, "Immediate")),
      Decl("main::c4", 3,
           IndexedClosure(ExprClosure(<<ArgIgnore>>, ExprLit(1)), <<>>,
                          "Immediate")) }

\* const Z = Z + 1; const W = 2; and the closure |a, self| 1
ProgSelf ==
    { Decl("Z", 1, IndexedConst(IrAdd(IrRef("Z"), IrLit(1)))),
      Decl("W", 2, IndexedConst(IrLit(2))),
      Decl("main::c3", 3,
           IndexedClosure(ExprClosure(<<ArgIdent("a"), ArgSelf>>, ExprLit(1)),
                          <<>>, "Immediate")) }

\* enum variant E::A with an empty body, struct T(i64, i64), and the closure
\* |self, _| 1
ProgShapes ==
    { Decl("E::A", 1, IndexedVariant("E", EmptyBody)),
      Decl("T", 2, IndexedStruct(TupleBody(<<"i64", "i64">>))),
      Decl("main::c5", 3,
           IndexedClosure(ExprClosure(<<ArgSelf, ArgIgnore>>, ExprLit(1)),
                          <<>>, "Immediate")) }

Programs ==
    {ProgDup, ProgEnum, ProgFn, ProgConst, ProgClosure, ProgSelf, ProgShapes}

\* The items a program declares, and one item no program declares.
ItemsOf(p) == {d.item : d \in p}
QueryItems(p) == ItemsOf(p) \cup {"ghost"}

(***************************************************************************)
(* Maps (HashMap<Item, _>) as functions on a set of items.                 *)
(***************************************************************************)
EmptyMap == [x \in {} |-> x]
MapInsert(m, k, v) == [x \in DOMAIN m \cup {k} |-> IF x = k THEN v ELSE m[x]]
MapRemove(m, k) == [x \in DOMAIN m \ {k} |-> m[x]]

\* The orders a HashMap of the keys S can be iterated in.
IterOrders(S) ==
    {f \in [1..Cardinality(S) -> S] : \A a, b \in DOMAIN f : f[a] = f[b] => a = b}

(***************************************************************************)
(* Results.                                                                *)
(***************************************************************************)
Ok(v) == [tag |-> "Ok", val |-> v]
QueryErr(kind) == [tag |-> "Err", kind |-> kind]

\* QueryError from an IrError of the const interpreter, and where it points.
IrError(kind, at) == [tag |-> "Err", kind |-> "IrError", ir |-> kind, at |-> at]
RetSome(m) == [tag |-> "Some", meta |-> m]
RetNone == [tag |-> "None"]
OptSome(item) == [some |-> TRUE, item |-> item]
OptNone == [some |-> FALSE]

\* CompileError::new(&old.span, CompileErrorKind::ItemConflict { existing })
ItemConflict(span, existing) ==
    [tag |-> "Err", kind |-> "ItemConflict", span |-> span, existing |-> existing]

(***************************************************************************)
(* The unit's meta (UnitBuilder::lookup_meta, UnitBuilder::insert_meta).   *)
(***************************************************************************)
\* The item a CompileMeta describes.
MetaItem(m) ==
    CASE m.kind.tag \in {"Tuple", "TupleVariant"} -> m.kind.tuple.item
      [] m.kind.tag \in {"Struct", "ObjectVariant"} -> m.kind.object.item
      [] OTHER -> m.kind.item

LookupMeta(cache, item) ==
    IF item \in DOMAIN cache THEN RetSome(cache[item]) ELSE RetNone

InsertMeta(cache, m) ==
    IF MetaItem(m) \in DOMAIN cache
    THEN [ok |-> FALSE, meta |-> cache]
    ELSE [ok |-> TRUE, meta |-> MapInsert(cache, MetaItem(m), m)]

(***************************************************************************)
(* The build queue.                                                        *)
(***************************************************************************)
\* Mutant: the entry is pushed at the front of the queue.
PushFront(q, e) == <<e>> \o q

\* VecDeque::push_back
PushBack(q, e) == Append(q, e)

\* struct BuildEntry
BuildEntry(item, build, entry, used) ==
    [item |-> item, build |-> build, source |-> entry.source,
     source_id |-> entry.source_id, used |-> used]

\* self.queue.push_back(BuildEntry { .. }); the push is also recorded in the
\* history of pushes.
Enqueue(q, e) ==
    [q EXCEPT !.queue = PushBack(@, e), !.enqueued = Append(@, e)]

(***************************************************************************)
(* The meta of structs and variants.                                       *)
(***************************************************************************)
\* name.resolve(&self.storage, &*source): the text of an identifier; it fails
\* on an identifier with no text in the source.
Resolve(name) ==
    IF name = "" THEN QueryErr("ParseError") ELSE Ok(name)

EmptyBodyMeta(item, enum_item) ==
    LET type_of == TypeHash(item)
        tuple == [item |-> item, args |-> 0, hash |-> TypeHash(item)]
    IN  IF enum_item.some
        THEN [tag |-> "TupleVariant", type_of |-> type_of,
              enum_item |-> enum_item.item, tuple |-> tuple]
        ELSE [tag |-> "Tuple", type_of |-> type_of, tuple |-> tuple]

\* Mutant: a tuple body is given the meta of an empty body.
TupleBodyMetaNoArgs(item, enum_item, body) ==
    EmptyBodyMeta(item, enum_item)

TupleBodyMeta(item, enum_item, body) ==
    LET type_of == TypeHash(item)
        tuple == [item |-> item, args |-> Len(body.fields), hash |-> TypeHash(item)]
    IN  IF enum_item.some
        THEN [tag |-> "TupleVariant", type_of |-> type_of,
              enum_item |-> enum_item.item, tuple |-> tuple]
        ELSE [tag |-> "Tuple", type_of |-> type_of, tuple |-> tuple]

StructBodyMeta(item, enum_item, st) ==
    LET type_of == TypeHash(item)
        bad == {k \in 1..Len(st.fields) : Resolve(st.fields[k]).tag = "Err"}
        fields == {Resolve(st.fields[k]).val : k \in 1..Len(st.fields)}
        object == [item |-> item, fields |-> fields]
    IN  IF bad # {}
        THEN Resolve(st.fields[CHOOSE k \in bad : \A j \in bad : k <= j])
        ELSE Ok(IF enum_item.some
                THEN [tag |-> "ObjectVariant", type_of |-> type_of,
                      enum_item |-> enum_item.item, object |-> object]
                ELSE [tag |-> "Struct", type_of |-> type_of, object |-> object])

VariantIntoItemDecl(item, body, enum_item) ==
    CASE body.shape = "EmptyBody" -> Ok(EmptyBodyMeta(item, enum_item))
      [] body.shape = "TupleBody" -> Ok(TupleBodyMeta(item, enum_item, body))
      [] body.shape = "StructBody" -> StructBodyMeta(item, enum_item, body)

StructIntoItemDecl(item, body, enum_item) ==
    CASE body.shape = "EmptyBody" -> Ok(EmptyBodyMeta(item, enum_item))
      [] body.shape = "TupleBody" -> Ok(TupleBodyMeta(item, enum_item, body))
      [] body.shape = "StructBody" -> StructBodyMeta(item, enum_item, body)

(***************************************************************************)
(* The query engine.  Its operations work on the record                    *)
(*   q = [indexed, meta, queue, enqueued, inserted, evals]                 *)
(* and answer [q |-> the record afterwards, ret |-> the result, depth |->  *)
(* how deep the meta queries of the call were nested].                     *)
(***************************************************************************)
\* The value of an expression that is evaluated once: The({e(x) : x \in {v}}).
The(S) == CHOOSE x \in S : TRUE

Max(a, b) == IF a >= b THEN a ELSE b

RECURSIVE QueryMetaWithUse(_, _, _)
RECURSIVE BuildIndexedEntry(_, _, _, _)
RECURSIVE Eval(_, _, _, _)

\* Query::query_meta: the public query, which marks things as used.
QueryMeta(q, item) == QueryMetaWithUse(q, item, "Used")

\* Indexed::Enum
BuildEnum(q, item, entry, used) ==
    [q |-> q, depth |-> 0,
     res |-> Ok([tag |-> "Enum", type_of |-> TypeHash(item), item |-> item])]

\* Mutant: the variant is built without a query for its enum.
BuildVariantNoEnumQuery(q, item, entry, used) ==
    [q |-> q, depth |-> 0,
     res |-> VariantIntoItemDecl(item, entry.indexed.ast,
                                 OptSome(entry.indexed.enum_item))]

\* Indexed::Variant: the enum is queried first, its answer is dropped.
BuildVariant(q, item, entry, used) ==
    The({ IF r.ret.tag = "Err"
          THEN [q |-> r.q, depth |-> r.depth, res |-> r.ret]
          ELSE [q |-> r.q, depth |-> r.depth,
                res |-> VariantIntoItemDecl(item, entry.indexed.ast,
                                            OptSome(entry.indexed.enum_item))]
          : r \in {QueryMeta(q, entry.indexed.enum_item)} })

\* Indexed::Struct
BuildStruct(q, item, entry, used) ==
    [q |-> q, depth |-> 0,
     res |-> StructIntoItemDecl(item, entry.indexed.ast, OptNone)]

\* Indexed::Function
BuildFunction(q, item, entry, used) ==
    [q |-> Enqueue(q, BuildEntry(item, entry.indexed, entry, used)),
     depth |-> 0,
     res |-> Ok([tag |-> "Function", type_of |-> TypeHash(item), item |-> item])]

\* Mutant: the closure's BuildEntry is not pushed.
BuildClosureNoPush(q, item, entry, used) ==
    [q |-> q, depth |-> 0,
     res |-> Ok([tag |-> "Closure", type_of |-> TypeHash(item),
                 item |-> item, captures |-> entry.indexed.captures])]

\* Mutant: the closure's BuildEntry is marked used whatever the query.
BuildClosureUsed(q, item, entry, used) ==
    [q |-> Enqueue(q, BuildEntry(item, entry.indexed, entry, "Used")),
     depth |-> 0,
     res |-> Ok([tag |-> "Closure", type_of |-> TypeHash(item),
                 item |-> item, captures |-> entry.indexed.captures])]

\* Mutant: the Meta of the closure has the captures in the opposite order.
BuildClosureReversed(q, item, entry, used) ==
    LET captures == entry.indexed.captures
        n == Len(captures)
    IN  [q |-> Enqueue(q, BuildEntry(item, entry.indexed, entry, used)),
         depth |-> 0,
         res |-> Ok([tag |-> "Closure", type_of |-> TypeHash(item),
                     item |-> item,
                     captures |-> [k \in 1..n |-> captures[n + 1 - k]]])]

\* Indexed::Closure
BuildClosure(q, item, entry, used) ==
    LET captures == entry.indexed.captures
    IN  [q |-> Enqueue(q, BuildEntry(item, entry.indexed, entry, used)),
         depth |-> 0,
         res |-> Ok([tag |-> "Closure", type_of |-> TypeHash(item),
                     item |-> item, captures |-> captures])]

\* Mutant: the BuildEntry of an async block is pushed with call Immediate.
BuildAsyncBlockImmediate(q, item, entry, used) ==
    LET captures == entry.indexed.captures
    IN  [q |-> Enqueue(q, BuildEntry(item,
                                     [entry.indexed EXCEPT !.call = "Immediate"],
                                     entry, used)),
         depth |-> 0,
         res |-> Ok([tag |-> "AsyncBlock", type_of |-> TypeHash(item),
                     item |-> item, captures |-> captures])]

\* Indexed::AsyncBlock
BuildAsyncBlock(q, item, entry, used) ==
    LET captures == entry.indexed.captures
    IN  [q |-> Enqueue(q, BuildEntry(item, entry.indexed, entry, used)),
         depth |-> 0,
         res |-> Ok([tag |-> "AsyncBlock", type_of |-> TypeHash(item),
                     item |-> item, captures |-> captures])]

\* IrBudget::new(1_000_000): the budget of a fresh interpreter.
IrBudget == 1000000

\* The interpreter at one IR node, with what is left of its budget: every
\* node visited takes one from the budget, and a node visited on an empty
\* budget fails; a reference to a const item calls back into the query
\* engine for the item's meta, and a reference that finds no const fails.
Eval(q, ir, used, budget) ==
    IF budget = 0
    THEN [q |-> q, depth |-> 0, budget |-> 0, res |-> IrError("BudgetExceeded", ir)]
    ELSE CASE ir.op = "Lit" ->
                [q |-> q, depth |-> 0, budget |-> budget - 1, res |-> Ok(ir.value)]
           [] ir.op = "DivZero" ->
                [q |-> q, depth |-> 0, budget |-> budget - 1,
                 res |-> IrError("DivideByZero", ir)]
           [] ir.op = "Ref" ->
                The({ [q |-> r.q, depth |-> r.depth, budget |-> budget - 1,
                       res |-> IF r.ret.tag = "Err" THEN r.ret
                               ELSE IF r.ret.tag = "Some"
                                       /\ r.ret.meta.kind.tag = "Const"
                               THEN Ok(r.ret.meta.kind.const_value)
                               ELSE IrError("NotConst", ir)]
                      : r \in {QueryMetaWithUse(q, ir.item, used)} })
           [] ir.op = "Add" ->
                The({ IF a.res.tag = "Err" THEN a
                      ELSE The({ [q |-> b.q, depth |-> Max(a.depth, b.depth),
                                  budget |-> b.budget,
                                  res |-> IF b.res.tag = "Err" THEN b.res
                                          ELSE Ok(a.res.val + b.res.val)]
                                 : b \in {Eval(a.q, ir.rhs, used, a.budget)} })
                      : a \in {Eval(q, ir.lhs, used, budget - 1)} })

\* IrInterpreter::eval_expr of a fresh interpreter.
EvalExpr(q, ir, used) ==
    The({ [q |-> e.q, depth |-> e.depth, res |-> e.res]
          : e \in {Eval(q, ir, used, IrBudget)} })

\* Mutant: the IR of the const is evaluated a second time for the value.
BuildConstTwice(q, item, entry, used) ==
    The({ IF e1.res.tag = "Err"
          THEN [q |-> e1.q, depth |-> e1.depth, res |-> e1.res]
          ELSE The({ IF ev.res.tag = "Err"
                     THEN [q |-> ev.q, depth |-> ev.depth, res |-> ev.res]
                     ELSE [q |-> ev.q, depth |-> ev.depth,
                           res |-> Ok([tag |-> "Const", const_value |-> ev.res.val,
                                       item |-> item])]
                     : ev \in {EvalExpr([e1.q EXCEPT !.evals = Append(@, item)],
                                        entry.indexed.ir, used)} })
          : e1 \in {EvalExpr([q EXCEPT !.evals = Append(@, item)],
                             entry.indexed.ir, used)} })

\* Indexed::Const: an interpreter is made and the IR is evaluated (which is
\* recorded in the history of evaluations); an unused const is queued as well.
BuildConst(q, item, entry, used) ==
    LET build == [tag |-> "UnusedConst", ir |-> entry.indexed.ir]
    IN  The({ IF ev.res.tag = "Err"
              THEN [q |-> ev.q, depth |-> ev.depth, res |-> ev.res]
              ELSE [q |-> IF IsUnused(used)
                          THEN Enqueue(ev.q, BuildEntry(item, build, entry, used))
                          ELSE ev.q,
                    depth |-> ev.depth,
                    res |-> Ok([tag |-> "Const", const_value |-> ev.res.val,
                                item |-> item])]
              : ev \in {EvalExpr([q EXCEPT !.evals = Append(@, item)],
                                 entry.indexed.ir, used)} })

\* The meta build_indexed_entry makes of a kind and the entry's source.
MetaOf(kind, entry) ==
    [kind |-> kind,
     source |-> [span |-> entry.span, path |-> entry.source.path,
                 source_id |-> entry.source_id]]

\* The kind of the meta, by the variant of the entry.
BuildKind(q, item, entry, used) ==
    LET tag == entry.indexed.tag
    IN  CASE tag = "Enum" -> BuildEnum(q, item, entry, used)
          [] tag = "Variant" -> BuildVariant(q, item, entry, used)
          [] tag = "Struct" -> BuildStruct(q, item, entry, used)
          [] tag = "Function" -> BuildFunction(q, item, entry, used)
          [] tag = "Closure" -> BuildClosure(q, item, entry, used)
          [] tag = "AsyncBlock" -> BuildAsyncBlock(q, item, entry, used)
          [] tag = "Const" -> BuildConst(q, item, entry, used)

\* Query::build_indexed_entry
BuildIndexedEntry(q, item, entry, used) ==
    The({ IF b.res.tag = "Err" THEN [q |-> b.q, depth |-> b.depth, ret |-> b.res]
          ELSE The({ IF ~ins.ok
                     THEN [q |-> b.q, depth |-> b.depth,
                           ret |-> QueryErr("UnitBuilderError")]
                     ELSE [q |-> [b.q EXCEPT !.meta = ins.meta,
                                             !.inserted = Append(@, item)],
                           depth |-> b.depth,
                           ret |-> RetSome(MetaOf(b.res.val, entry))]
                     : ins \in {InsertMeta(b.q.meta, MetaOf(b.res.val, entry))} })
          : b \in {BuildKind(q, item, entry, used)} })

\* self.indexed.remove(item)
TakeIndexed(idx, item) == MapRemove(idx, item)

\* Mutant: the Meta cache is not consulted before the Index.
QueryMetaWithUseNoCache(q, item, used) ==
    IF item \notin DOMAIN q.indexed
    THEN [q |-> q, depth |-> 1, ret |-> LookupMeta(q.meta, item)]
    ELSE The({ [q |-> b.q, depth |-> 1 + b.depth, ret |-> b.ret]
               : b \in {BuildIndexedEntry(
                           [q EXCEPT !.indexed = TakeIndexed(@, item)],
                           item, q.indexed[item], used)} })

\* Mutant: a query for an item that is not known is an error.
QueryMetaWithUseUnknownErr(q, item, used) ==
    LET found == LookupMeta(q.meta, item)
    IN  IF found.tag = "Some" THEN [q |-> q, depth |-> 1, ret |-> found]
        ELSE IF item \notin DOMAIN q.indexed
        THEN [q |-> q, depth |-> 1, ret |-> QueryErr("MissingItem")]
        ELSE The({ [q |-> b.q, depth |-> 1 + b.depth, ret |-> b.ret]
                   : b \in {BuildIndexedEntry(
                               [q EXCEPT !.indexed = TakeIndexed(@, item)],
                               item, q.indexed[item], used)} })

\* Query::query_meta_with_use
QueryMetaWithUse(q, item, used) ==
    LET found == LookupMeta(q.meta, item)
    IN  IF found.tag = "Some" THEN [q |-> q, depth |-> 1, ret |-> found]
        ELSE IF item \notin DOMAIN q.indexed
        THEN [q |-> q, depth |-> 1, ret |-> RetNone]
        ELSE The({ [q |-> b.q, depth |-> 1 + b.depth, ret |-> b.ret]
                   : b \in {BuildIndexedEntry(
                               [q EXCEPT !.indexed = TakeIndexed(@, item)],
                               item, q.indexed[item], used)} })

\* The loop of Query::queue_unused_entries over its snapshot of the Index.
RECURSIVE QueueUnusedLoop(_, _, _, _, _)
QueueUnusedLoop(q, unused, k, visited, depth) ==
    IF k > Len(unused)
    THEN [q |-> q, ret |-> Ok(TRUE), visited |-> visited, depth |-> depth]
    ELSE The({ IF r.ret.tag = "Err"
               THEN [q |-> r.q, visited |-> visited, depth |-> Max(depth, r.depth),
                     ret |-> [tag |-> "Err", source_id |-> unused[k].source_id,
                              error |-> r.ret]]
               ELSE QueueUnusedLoop(r.q, unused, k + 1,
                       IF r.ret.tag = "Some"
                       THEN Append(visited, [source_id |-> unused[k].source_id,
                                             meta |-> r.ret.meta,
                                             span |-> unused[k].span])
                       ELSE visited,
                       Max(depth, r.depth))
               : r \in {QueryMetaWithUse(q, unused[k].item, "Unused")} })

\* Mutant: the scan queries nothing and says it queued something.
QueueUnusedEntriesNoQuery(q, order) ==
    [q |-> q, ret |-> Ok(Len(order) # 0), visited |-> <<>>, depth |-> 0]

\* Mutant: the scan gives up when the build queue is empty.
QueueUnusedEntriesIfQueued(q, order) ==
    IF Len(order) = 0 \/ q.queue = <<>>
    THEN [q |-> q, ret |-> Ok(FALSE), visited |-> <<>>, depth |-> 0]
    ELSE QueueUnusedLoop(q,
            [k \in 1..Len(order) |->
                [item |-> order[k], span |-> q.indexed[order[k]].span,
                 source_id |-> q.indexed[order[k]].source_id]],
            1, <<>>, 0)

\* Query::queue_unused_entries; order is the order self.indexed.iter() yields
\* the items in, visited the calls of visitor.visit_meta.
QueueUnusedEntries(q, order) ==
    LET unused == [k \in 1..Len(order) |->
                      [item |-> order[k], span |-> q.indexed[order[k]].span,
                       source_id |-> q.indexed[order[k]].source_id]]
    IN  IF Len(unused) = 0
        THEN [q |-> q, ret |-> Ok(FALSE), visited |-> <<>>, depth |-> 0]
        ELSE QueueUnusedLoop(q, unused, 1, <<>>, 0)

\* Query::index
Index(idx, item, entry) ==
    [indexed |-> MapInsert(idx, item, entry),
     ret |-> IF item \in DOMAIN idx
             THEN ItemConflict(idx[item].span, item)
             ELSE Ok("unit")]

(***************************************************************************)
(* The emitter: scopes, instructions, and the two compilations of a        *)
(* closure (compiling/compile/expr_closure.rs).                            *)
(***************************************************************************)
\* A scope is the sequence of its slots: the name of the variable in the
\* slot, or "_" for an anonymous slot.
Slots(scope) == {scope[k] : k \in DOMAIN scope}

\* scopes.new_var: declares a named local at the next slot; a name already
\* declared in the scope is an error.
NewVar(scope, name) ==
    IF name \in Slots(scope)
    THEN [tag |-> "Err", kind |-> "VariableConflict", name |-> name]
    ELSE Ok(Append(scope, name))

\* scopes.decl_anon: declares an unnamed slot.
DeclAnon(scope) == Ok(Append(scope, "_"))

\* scopes.get_var: the offset of the slot the name resolves to.
GetVar(scope, name) ==
    IF name \in Slots(scope)
    THEN Ok((CHOOSE k \in DOMAIN scope : scope[k] = name) - 1)
    ELSE [tag |-> "Err", kind |-> "MissingLocal", name |-> name]

\* scopes.total_var_count: the number of slots to clean on return.
TotalVarCount(scope) == Len(scope)

\* The instructions.
InstPushTuple == [op |-> "PushTuple"]
InstClean(count) == [op |-> "Clean", count |-> count]
InstReturn == [op |-> "Return"]
InstLoadFn(hash) == [op |-> "LoadFn", hash |-> hash]
InstCopy(offset) == [op |-> "Copy", offset |-> offset]
InstClosure(hash, count) == [op |-> "Closure", hash |-> hash, count |-> count]
InstPush(v) == [op |-> "Push", value |-> v]

\* The emitter's errors.
UnsupportedSelf == [tag |-> "Err", kind |-> "UnsupportedSelf"]
MissingType(item) == [tag |-> "Err", kind |-> "MissingType", item |-> item]
ExpectedMeta(m, expected) ==
    [tag |-> "Err", kind |-> "ExpectedMeta", got |-> m.kind.tag,
     expected |-> expected]

\* self.compile((&*expr_closure.body, Needs::Value)): the instructions of the
\* body expression.
CompileExpr(scope, expr) ==
    CASE expr.kind = "Lit" -> [res |-> Ok("unit"), asm |-> <<InstPush(expr.value)>>]
      [] expr.kind = "Var" ->
            LET var == GetVar(scope, expr.name)
            IN  IF var.tag = "Err" THEN [res |-> var, asm |-> <<>>]
                ELSE [res |-> Ok("unit"), asm |-> <<InstCopy(var.val)>>]

\* The states of the build of a closure body, as the points of the body
\* compilation: the entry taken from the queue; the parameters and captures
\* declared in the scope of the function; the body compiled and the slots
\* cleaned; Return pushed and the scope popped.
BuildStates == <<"Queued", "BodyCompiling", "BodyCompiled", "Finalised">>

\* Scopes::new: the scope stack a build starts with, one empty scope.
NewScopes == << <<>> >>

\* scopes.pop_last: pops the scope of the function, the last of the stack.
PopLast(scopes) == SubSeq(scopes, 1, Len(scopes) - 1)

\* Mutant: a self parameter is skipped.
BindArgsSkipSelf(scope, args, k) ==
    [res |-> Ok("unit"),
     scope |-> SelectSeq([j \in DOMAIN args |->
                             IF args[j].kind = "Ident" THEN args[j].name
                             ELSE IF args[j].kind = "Ignore" THEN "_"
                             ELSE "self"],
                         LAMBDA n : n # "self")]

\* The loop over the parameters of a closure: from parameter k on. The
\* answer has the scope as declared when the loop ended or returned.
RECURSIVE BindArgs(_, _, _)
BindArgs(scope, args, k) ==
    IF k > Len(args) THEN [res |-> Ok("unit"), scope |-> scope]
    ELSE CASE args[k].kind = "SelfValue" ->
                 [res |-> UnsupportedSelf, scope |-> scope]
           [] args[k].kind = "Ident" ->
                 LET v == NewVar(scope, args[k].name)
                 IN  IF v.tag = "Err" THEN [res |-> v, scope |-> scope]
                     ELSE BindArgs(v.val, args, k + 1)
           [] args[k].kind = "Ignore" ->
                 BindArgs(DeclAnon(scope).val, args, k + 1)

\* Mutant: the captures are declared last to first.
BindCapturesReversed(scope, captures, k) ==
    LET n == Len(captures)
    IN  IF \E j \in 1..n : captures[j] \in Slots(scope)
        THEN [res |-> [tag |-> "Err", kind |-> "VariableConflict",
                       name |-> captures[CHOOSE j \in 1..n :
                                            captures[j] \in Slots(scope)]],
              scope |-> scope]
        ELSE [res |-> Ok("unit"),
              scope |-> scope \o [j \in 1..n |-> captures[n + 1 - j]]]

\* The loop over the captures of a closure body: from capture k on.
RECURSIVE BindCaptures(_, _, _)
BindCaptures(scope, captures, k) ==
    IF k > Len(captures) THEN [res |-> Ok("unit"), scope |-> scope]
    ELSE LET v == NewVar(scope, captures[k])
         IN  IF v.tag = "Err" THEN [res |-> v, scope |-> scope]
             ELSE BindCaptures(v.val, captures, k + 1)

\* Compile<(ast::ExprClosure, &[CompileMetaCapture])>: the body of a closure,
\* in the scope of its function, the one scope of the stack the build starts
\* with. The answer has the instructions pushed (also those pushed before an
\* error), the scope as declared, the states the build passed, and the scope
\* stack when the compilation returned.
CompileClosureBody(expr_closure, captures) ==
    LET args == BindArgs(<<>>, expr_closure.args, 1)
        head == IF captures # <<>> THEN <<InstPushTuple>> ELSE <<>>
        caps == BindCaptures(args.scope, captures, 1)
        count == TotalVarCount(caps.scope)
        body == CompileExpr(caps.scope, expr_closure.body)
        clean == IF count # 0 THEN <<InstClean(count)>> ELSE <<>>
    IN  IF args.res.tag = "Err"
        THEN [res |-> args.res, asm |-> <<>>, scope |-> args.scope,
              states |-> SubSeq(BuildStates, 1, 1),
              scopes |-> <<args.scope>>]
        ELSE IF caps.res.tag = "Err"
        THEN [res |-> caps.res, asm |-> head, scope |-> caps.scope,
              states |-> SubSeq(BuildStates, 1, 1),
              scopes |-> <<caps.scope>>]
        ELSE IF body.res.tag = "Err"
        THEN [res |-> body.res, asm |-> head \o body.asm, scope |-> caps.scope,
              states |-> SubSeq(BuildStates, 1, 2),
              scopes |-> <<caps.scope>>]
        ELSE [res |-> Ok("unit"),
              asm |-> head \o body.asm \o clean \o <<InstReturn>>,
              scope |-> caps.scope,
              states |-> BuildStates,
              scopes |-> PopLast(<<caps.scope>>)]

\* Mutant: the captures are copied last to first.
CopyCapturesReversed(scope, captures, k, asm) ==
    LET n == Len(captures)
        bad == {j \in 1..n : GetVar(scope, captures[j]).tag = "Err"}
    IN  IF bad # {}
        THEN [res |-> GetVar(scope, captures[CHOOSE j \in bad : TRUE]), asm |-> asm]
        ELSE [res |-> Ok("unit"),
              asm |-> asm \o [j \in 1..n |->
                                 InstCopy(GetVar(scope, captures[n + 1 - j]).val)]]

\* The loop over the captures at a construction site: a Copy of each, from
\* capture k on, until a name does not resolve.
RECURSIVE CopyCaptures(_, _, _, _)
CopyCaptures(scope, captures, k, asm) ==
    IF k > Len(captures) THEN [res |-> Ok("unit"), asm |-> asm]
    ELSE LET var == GetVar(scope, captures[k])
         IN  IF var.tag = "Err" THEN [res |-> var, asm |-> asm]
             ELSE CopyCaptures(scope, captures, k + 1,
                               Append(asm, InstCopy(var.val)))

\* Mutant: a closure with no captures is constructed with an environment too.
EmitClosureAlwaysEnv(scope, hash, captures) ==
    LET copies == CopyCaptures(scope, captures, 1, <<>>)
    IN  IF copies.res.tag = "Err" THEN copies
        ELSE [res |-> Ok("unit"),
              asm |-> Append(copies.asm, InstClosure(hash, Len(captures)))]

\* The instructions of a construction site, for the captures of the Meta:
\* LoadFn for a closure that captures nothing, else the copies of the
\* captures and Closure.
EmitClosure(scope, hash, captures) ==
    LET copies == CopyCaptures(scope, captures, 1, <<>>)
    IN  IF captures = <<>>
        THEN [res |-> Ok("unit"), asm |-> <<InstLoadFn(hash)>>]
        ELSE IF copies.res.tag = "Err" THEN copies
        ELSE [res |-> Ok("unit"),
              asm |-> Append(copies.asm, InstClosure(hash, Len(captures)))]

\* Mutant: the kind of the Meta is not examined.
CompileClosureSiteAnyKind(q, item, needs, scope) ==
    IF ~needs
    THEN [q |-> q, res |-> Ok("unit"), asm |-> <<>>, queried |-> FALSE,
          warned |-> TRUE, captures |-> <<>>]
    ELSE The({
           IF r.ret.tag = "Err"
           THEN [q |-> r.q, res |-> r.ret, asm |-> <<>>, queried |-> TRUE,
                 warned |-> FALSE, captures |-> <<>>]
           ELSE IF r.ret.tag = "None"
           THEN [q |-> r.q, res |-> MissingType(item), asm |-> <<>>,
                 queried |-> TRUE, warned |-> FALSE, captures |-> <<>>]
           ELSE LET captures == r.ret.meta.kind.captures
                    e == EmitClosure(scope, TypeHash(item), captures)
                IN  [q |-> r.q, res |-> e.res, asm |-> e.asm, queried |-> TRUE,
                     warned |-> FALSE, captures |-> captures]
           : r \in {QueryMeta(q, item)} })

\* Mutant: the Meta is queried and the closure constructed also when the
\* value is not needed.
CompileClosureSiteAlwaysQuery(q, item, needs, scope) ==
    The({
        IF r.ret.tag = "Err"
        THEN [q |-> r.q, res |-> r.ret, asm |-> <<>>, queried |-> TRUE,
              warned |-> ~needs, captures |-> <<>>]
        ELSE IF r.ret.tag = "None"
        THEN [q |-> r.q, res |-> MissingType(item), asm |-> <<>>,
              queried |-> TRUE, warned |-> ~needs, captures |-> <<>>]
        ELSE IF r.ret.meta.kind.tag # "Closure"
        THEN [q |-> r.q, res |-> ExpectedMeta(r.ret.meta, "a closure"),
              asm |-> <<>>, queried |-> TRUE, warned |-> ~needs,
              captures |-> <<>>]
        ELSE LET captures == r.ret.meta.kind.captures
                 e == EmitClosure(scope, TypeHash(item), captures)
             IN  [q |-> r.q, res |-> e.res, asm |-> e.asm, queried |-> TRUE,
                  warned |-> ~needs, captures |-> captures]
        : r \in {QueryMeta(q, item)} })

\* Compile<(&ast::ExprClosure, Needs)>: the construction site of the closure
\* indexed as item, in the enclosing scope. The answer has the query engine
\* afterwards, the instructions pushed, whether the meta was queried, and
\* the capture list read from the meta.
CompileClosureSite(q, item, needs, scope) ==
    IF ~needs
    THEN [q |-> q, res |-> Ok("unit"), asm |-> <<>>, queried |-> FALSE,
          warned |-> TRUE, captures |-> <<>>]
    ELSE The({
           IF r.ret.tag = "Err"
           THEN [q |-> r.q, res |-> r.ret, asm |-> <<>>, queried |-> TRUE,
                 warned |-> FALSE, captures |-> <<>>]
           ELSE IF r.ret.tag = "None"
           THEN [q |-> r.q, res |-> MissingType(item), asm |-> <<>>,
                 queried |-> TRUE, warned |-> FALSE, captures |-> <<>>]
           ELSE IF r.ret.meta.kind.tag # "Closure"
           THEN [q |-> r.q, res |-> ExpectedMeta(r.ret.meta, "a closure"),
                 asm |-> <<>>, queried |-> TRUE, warned |-> FALSE,
                 captures |-> <<>>]
           ELSE LET captures == r.ret.meta.kind.captures
                    e == EmitClosure(scope, TypeHash(item), captures)
                IN  [q |-> r.q, res |-> e.res, asm |-> e.asm, queried |-> TRUE,
                     warned |-> FALSE, captures |-> captures]
           : r \in {QueryMeta(q, item)} })

\* The body the emitter compiles for a BuildEntry: the body of a closure;
\* the other builds are not compiled here.
EmitBuild(entry) ==
    IF entry.build.tag = "Closure"
    THEN CompileClosureBody(entry.build.ast, entry.build.captures)
    ELSE [res |-> Ok("unit"), asm |-> <<>>, scope |-> <<>>,
          states |-> <<>>, scopes |-> NewScopes]

\* The items of the closure expressions of a program (item_for): the items
\* it declares as closures, and as async blocks, which are not closures.
SiteItems(p) ==
    {d.item : d \in {e \in p : e.entry.indexed.tag \in {"Closure", "AsyncBlock"}}}

\* The enclosing scopes a construction site is compiled in.
SiteScopes == { <<"y", "_", "x">>, <<"x">> }

VARIABLES
    prog,       \* the declarations of the program being compiled
    indexed,    \* Query.indexed: the Index
    queue,      \* Query.queue: the build queue
    meta,       \* the unit's meta: the Meta cache
    names,      \* the unit's names
    enqueued,   \* history: every BuildEntry pushed, in the order pushed
    inserted,   \* history: the items whose Meta was cached, in the order cached
    evals,      \* history: the const items whose IR was evaluated, in order
    emitted,    \* history: every BuildEntry popped by the emitter, in order
    declared,   \* history: the declarations indexed so far
    firstDef,   \* history: item -> span of the first insertion of the item
    last,       \* history: the last operation, its arguments and its result
    pc          \* the driver's position

vars ==
    <<prog, indexed, queue, meta, names, enqueued, inserted, evals, emitted,
      declared, firstDef, last, pc>>

(***************************************************************************)
(* The steps of the program.                                               *)
(***************************************************************************)
\* The state of the query engine as one record, and back.
Q ==
    [indexed |-> indexed, meta |-> meta, queue |-> queue, enqueued |-> enqueued,
     inserted |-> inserted, evals |-> evals]

SetQ(q) ==
    /\ indexed' = q.indexed
    /\ meta' = q.meta
    /\ queue' = q.queue
    /\ enqueued' = q.enqueued
    /\ inserted' = q.inserted
    /\ evals' = q.evals

\* Query::new; no declaration is indexed yet.
InitQuery ==
    /\ prog \in Programs
    /\ indexed = EmptyMap
    /\ queue = <<>>
    /\ meta = EmptyMap
    /\ names = {}
    /\ enqueued = <<>>
    /\ inserted = <<>>
    /\ evals = <<>>
    /\ emitted = <<>>
    /\ declared = {}
    /\ firstDef = EmptyMap
    /\ last = [op |-> "new"]

\* One call of Query::index (through index_enum, index_struct, ...): the name
\* is inserted into the unit, the entry into the Index.
DoIndex(d) ==
    \E r \in {Index(indexed, d.item, d.entry)} :
        /\ indexed' = r.indexed
        /\ names' = names \cup {d.item}
        /\ declared' = declared \cup {d}
        /\ firstDef' = IF d.item \in DOMAIN firstDef THEN firstDef
                       ELSE MapInsert(firstDef, d.item, d.entry.span)
        /\ last' = [op |-> "index", item |-> d.item, entry |-> d.entry, ret |-> r.ret]
        /\ UNCHANGED <<prog, queue, meta, enqueued, inserted, evals, emitted>>

\* One call of Query::query_meta_with_use.
DoQueryMeta(item, used) ==
    \E r \in {QueryMetaWithUse(Q, item, used)} :
        /\ SetQ(r.q)
        /\ last' = [op |-> "query_meta", item |-> item, used |-> used,
                    ret |-> r.ret, depth |-> r.depth]
        /\ UNCHANGED <<prog, names, emitted, declared, firstDef>>

\* One call of Query::queue_unused_entries.
DoQueueUnused(order) ==
    \E r \in {QueueUnusedEntries(Q, order)} :
        /\ SetQ(r.q)
        /\ last' = [op |-> "queue_unused_entries", order |-> order,
                    ret |-> r.ret, visited |-> r.visited, depth |-> r.depth]
        /\ UNCHANGED <<prog, names, emitted, declared, firstDef>>

\* The emitter takes the entry at the front of the build queue.
PopFront(q) == [queue |-> Tail(q), entry |-> Head(q)]

\* One compilation of the construction site of a closure.
DoClosureSite(item, needs, scope) ==
    \E r \in {CompileClosureSite(Q, item, needs, scope)} :
        /\ SetQ(r.q)
        /\ last' = [op |-> "closure_site", item |-> item, needs |-> needs,
                    scope |-> scope, ret |-> r.res, asm |-> r.asm,
                    queried |-> r.queried, warned |-> r.warned,
                    captures |-> r.captures]
        /\ UNCHANGED <<prog, names, emitted, declared, firstDef>>

(***************************************************************************)
(* Spec: the operations of Query called in any order.                      *)
(***************************************************************************)
Init == InitQuery /\ pc = "api"

\* Each declaration of the program is indexed at most once.
ApiIndex ==
    \E d \in prog \ declared : pc = "api" /\ DoIndex(d) /\ UNCHANGED pc

ApiQueryMeta ==
    \E item \in QueryItems(prog), used \in UsedValues :
        pc = "api" /\ DoQueryMeta(item, used) /\ UNCHANGED pc

ApiQueueUnused ==
    \E order \in IterOrders(DOMAIN indexed) :
        pc = "api" /\ DoQueueUnused(order) /\ UNCHANGED pc

ApiPopFront ==
    /\ pc = "api"
    /\ queue # <<>>
    /\ LET p == PopFront(queue)
       IN  /\ queue' = p.queue
           /\ emitted' = Append(emitted, p.entry)
           /\ \E b \in {EmitBuild(p.entry)} :
                 last' = [op |-> "pop_front", item |-> p.entry.item,
                          ret |-> b.res, asm |-> b.asm, scope |-> b.scope,
                          states |-> b.states, scopes |-> b.scopes]
    /\ UNCHANGED <<prog, indexed, meta, names, enqueued, inserted, evals, declared,
                   firstDef, pc>>

ApiClosureSite ==
    \E item \in SiteItems(prog), needs \in BOOLEAN :
        \E scope \in IF needs THEN SiteScopes ELSE {<<"x">>} :
            pc = "api" /\ DoClosureSite(item, needs, scope) /\ UNCHANGED pc

Next ==
    \/ ApiIndex
    \/ ApiQueryMeta
    \/ ApiQueueUnused
    \/ ApiPopFront
    \/ ApiClosureSite

Spec == Init /\ [][Next]_vars

(***************************************************************************)
(* DriveSpec: one compilation.  The driver indexes every declaration of    *)
(* the program, then runs the drive loop                                   *)
(*     while queue non-empty: emit(pop_front())                            *)
(*     while queue_unused_entries(): drain as above                        *)
(* and stops at the first error.                                           *)
(***************************************************************************)
DriveInit == InitQuery /\ pc = "index"

DriveIndex ==
    \E d \in prog \ declared :
        /\ pc = "index"
        /\ DoIndex(d)
        /\ pc' = IF last'.ret.tag = "Err" THEN "error" ELSE "index"

DriveStart ==
    /\ pc = "index"
    /\ declared = prog
    /\ pc' = "start"
    /\ UNCHANGED <<prog, indexed, queue, meta, names, enqueued, inserted, evals,
                   emitted, declared, firstDef, last>>

\* Before the loop the driver resolves the items it was asked to build (the
\* entry points) with query_meta.
DriveSeed ==
    \E item \in DOMAIN indexed :
        /\ pc = "start"
        /\ DoQueryMeta(item, "Used")
        /\ pc' = IF last'.ret.tag = "Err" THEN "error" ELSE "start"

DriveLoop ==
    /\ pc = "start"
    /\ pc' = "drain"
    /\ UNCHANGED <<prog, indexed, queue, meta, names, enqueued, inserted, evals,
                   emitted, declared, firstDef, last>>

\* The meta queries the emitter issues for one BuildEntry, until one fails.
RECURSIVE EmitQueries(_, _, _, _)
EmitQueries(q, items, k, depth) ==
    IF k > Len(items) THEN [q |-> q, ok |-> TRUE, depth |-> depth]
    ELSE The({ IF r.ret.tag = "Err"
               THEN [q |-> r.q, ok |-> FALSE, depth |-> Max(depth, r.depth)]
               ELSE EmitQueries(r.q, items, k + 1, Max(depth, r.depth))
               : r \in {QueryMeta(q, items[k])} })

QuerySeqs(p) == UNION {[1..n -> QueryItems(p)] : n \in 0..MaxEmitQueries}

\* emit(pop_front()): the entry is taken, its body is compiled, which issues
\* meta queries and may fail.
DriveEmit ==
    /\ pc = "drain"
    /\ queue # <<>>
    /\ \E items \in QuerySeqs(prog), fails \in BOOLEAN :
        \E p \in {PopFront(queue)} :
        \E r \in {EmitQueries([Q EXCEPT !.queue = p.queue], items, 1, 0)} :
            /\ SetQ(r.q)
            /\ emitted' = Append(emitted, p.entry)
            /\ last' = [op |-> "emit", item |-> p.entry.item, queries |-> items,
                        depth |-> r.depth]
            /\ pc' = IF r.ok /\ ~fails THEN "drain" ELSE "error"
    /\ UNCHANGED <<prog, names, declared, firstDef>>

DriveQueueUnused ==
    /\ pc = "drain"
    /\ queue = <<>>
    /\ \E order \in IterOrders(DOMAIN indexed) :
        /\ DoQueueUnused(order)
        /\ pc' = IF last'.ret.tag = "Err" THEN "error"
                 ELSE IF last'.ret.val THEN "drain" ELSE "done"

DriveNext ==
    \/ DriveIndex
    \/ DriveStart
    \/ DriveSeed
    \/ DriveLoop
    \/ DriveEmit
    \/ DriveQueueUnused

DriveSpec == DriveInit /\ [][DriveNext]_vars /\ WF_vars(DriveNext)

(***************************************************************************)
(* The claims.                                                             *)
(***************************************************************************)
\* The items in the Index and in the Meta cache.
InIndex == DOMAIN indexed
InMeta == DOMAIN meta

\* C1: in every state reachable by index insertions, meta queries and
\* queue_unused_entries calls in any order, no item is in the Index and in
\* the Meta cache at the same time.
C1_NeverInIndexAndMeta == InIndex \cap InMeta = {}

\* C2: every index insertion of an item that is in the Index fails with
\* ItemConflict, and the span of the error is the span of the first
\* definition of the item, for the second, the third, ... insertion alike.
C2_ConflictSpanIsFirstDefinition ==
    [][(last'.op = "index" /\ last'.item \in InIndex)
        => last'.ret = ItemConflict(firstDef[last'.item], last'.item)]_vars

\* C3: a meta query that resolves an item finds it in the Index, takes it out
\* and answers the Meta it caches; a meta query for an item that is cached
\* answers the cached Meta and changes neither the Index, the Meta cache nor
\* the build queue; and a cached Meta never changes. So a second query_meta
\* answers the Meta of the first.
C3_IdempotentMeta ==
    [][/\ (last'.op = "query_meta" /\ last'.ret.tag = "Some"
               /\ last'.item \notin InMeta)
           => /\ last'.item \in InIndex
              /\ last'.item \notin DOMAIN indexed'
              /\ last'.item \in DOMAIN meta'
              /\ meta'[last'.item] = last'.ret.meta
       /\ (last'.op = "query_meta" /\ last'.item \in InMeta)
           => /\ last'.ret = RetSome(meta[last'.item])
              /\ indexed' = indexed
              /\ meta' = meta
              /\ queue' = queue
       /\ \A i \in InMeta : i \in DOMAIN meta' /\ meta'[i] = meta[i]]_vars

\* C3 witness: an item resolved by a used query (its BuildEntry says so) has
\* been queried a second time, as unused, and answered.
C3_Witness ==
    /\ last.op = "query_meta"
    /\ last.used = "Unused"
    /\ last.ret.tag = "Some"
    /\ last.item \notin InIndex
    /\ \E k \in DOMAIN enqueued :
          enqueued[k].item = last.item /\ enqueued[k].used = "Used"

\* C4: a meta query for an indexed item that fails with an error leaves the
\* item in the Index.
C4_FailedQueryKeepsEntry ==
    [][(last'.op = "query_meta" /\ last'.ret.tag = "Err" /\ last'.item \in InIndex)
        => last'.item \in DOMAIN indexed']_vars

\* The driver has stopped: the drive loop is over, or an error aborted it.
Stopped == pc \in {"done", "error"}

\* The kinds of Meta whose items are built from a BuildEntry.
BuiltKinds == {"Function", "Closure", "AsyncBlock"}

\* The items of the entries of a sequence of BuildEntries.
ItemsIn(entries) == {entries[k].item : k \in DOMAIN entries}

\* C5: the drive loop terminates; during the drive the Index never grows, and
\* the meta queries of a call are nested no deeper than the program has
\* items, plus the one query that finds nothing left to build.
C5_DriveTerminates ==
    /\ <>Stopped
    /\ [][pc # "index" => DOMAIN indexed' \subseteq DOMAIN indexed]_vars
    /\ [](last.op \in {"query_meta", "queue_unused_entries", "emit"}
            => last.depth <= Cardinality(ItemsOf(prog)) + 1)

\* C5 witness: a drive has ended in which entries queued by used queries and
\* entries queued by the scan for unused entries were emitted.
C5_Witness ==
    /\ pc = "done"
    /\ \E a, b \in DOMAIN emitted :
          emitted[a].used = "Used" /\ emitted[b].used = "Unused"

\* C6: after a full drive that ends without error the Index is empty, and
\* every item that was indexed is in the Meta cache.
C6_IndexEmptyAfterDrive ==
    pc = "done" => (InIndex = {} /\ names \subseteq InMeta)

\* C6 witness: a drive of a program with declarations has ended without error.
C6_Witness == pc = "done" /\ Cardinality(names) >= 3 /\ InIndex = {}

\* C7 as stated: after a full drive every Meta whose kind is not Enum, Struct,
\* Tuple or Const has a BuildEntry for its item that was queued and drained.
C7_AllButFourKindsBuilt ==
    pc = "done" =>
        \A i \in InMeta :
            meta[i].kind.tag \notin {"Enum", "Struct", "Tuple", "Const"}
                => i \in ItemsIn(enqueued) /\ i \in ItemsIn(emitted)

\* C7 as amended: after a full drive every Meta of kind Function, Closure or
\* AsyncBlock has a BuildEntry of the same kind for its item that was queued
\* and drained; the Metas of the other kinds (Enum, Struct, Tuple,
\* TupleVariant, ObjectVariant, Const) may have none.
C7_BuiltKindsHaveEntry ==
    pc = "done" =>
        \A i \in InMeta :
            meta[i].kind.tag \in BuiltKinds
                => /\ \E k \in DOMAIN enqueued :
                        /\ enqueued[k].item = i
                        /\ enqueued[k].build.tag = meta[i].kind.tag
                   /\ i \in ItemsIn(emitted)

\* C7 witness: a full drive has ended with a Closure in the Meta cache.
C7_Witness ==
    pc = "done" /\ \E i \in InMeta : meta[i].kind.tag = "Closure"

\* C8: no item is pushed onto the build queue twice, and none is taken by the
\* emitter twice.
C8_PushedAtMostOnce ==
    /\ \A a, b \in DOMAIN enqueued : enqueued[a].item = enqueued[b].item => a = b
    /\ \A a, b \in DOMAIN emitted : emitted[a].item = emitted[b].item => a = b

\* C8 witness: an item with a BuildEntry was indexed again and queried again;
\* the query found it in the Meta cache.
C8_Witness ==
    /\ last.op = "query_meta"
    /\ last.ret.tag = "Some"
    /\ last.item \in InIndex
    /\ last.item \in ItemsIn(enqueued)

\* C9: a meta query that resolves an indexed Function, Closure or AsyncBlock
\* appends one BuildEntry for the item at the tail of the build queue, with
\* the used flag of the query and the payload of the entry, and answers a
\* Meta of the same kind.
C9_ResolveAppendsOneEntry ==
    [][(/\ last'.op = "query_meta"
        /\ last'.item \in InIndex \ InMeta
        /\ indexed[last'.item].indexed.tag \in BuiltKinds)
        => /\ Len(queue') = Len(queue) + 1
           /\ SubSeq(queue', 1, Len(queue)) = queue
           /\ queue'[Len(queue')].item = last'.item
           /\ queue'[Len(queue')].used = last'.used
           /\ queue'[Len(queue')].build = indexed[last'.item].indexed
           /\ last'.ret.tag = "Some"
           /\ last'.ret.meta.kind.tag = indexed[last'.item].indexed.tag
           /\ last'.ret.meta.kind.item = last'.item]_vars

\* C9 witness: an unused query has put its entry behind one already queued.
C9_Witness ==
    /\ last.op = "query_meta"
    /\ last.used = "Unused"
    /\ Len(queue) >= 2
    /\ queue[Len(queue)].item = last.item
    /\ queue[Len(queue)].used = "Unused"
    /\ queue[Len(queue)].build.tag = "Closure"

\* The declaration order of the items of a sequence of BuildEntries: the
\* spans of their declarations increase.
InDeclarationOrder(entries) ==
    \A a, b \in DOMAIN entries :
        a < b => meta[entries[a].item].source.span < meta[entries[b].item].source.span

\* C10 as stated: the emission order of a drive is the declaration order of
\* the items.
C10_EmissionIsDeclarationOrder ==
    pc = "done" => InDeclarationOrder(emitted)

\* C10 as amended: the build queue is drained first in, first out: the
\* entries emitted, followed by the entries queued, are the entries pushed,
\* in the order they were pushed.
C10_DrainedFifo == enqueued = emitted \o queue

\* C10 witness: a drive has ended whose emission order is not the
\* declaration order.
C10_Witness ==
    pc = "done" /\ Len(emitted) >= 2 /\ ~InDeclarationOrder(emitted)

\* The kinds of Meta of a variant.
VariantKinds == {"TupleVariant", "ObjectVariant"}

\* Item a is in the cache and was cached before item b, in the history ins.
CachedBefore(cache, ins, a, b) ==
    /\ a \in DOMAIN cache
    /\ \E i, j \in DOMAIN ins : i < j /\ ins[i] = a /\ ins[j] = b

CaptureKinds == {"Closure", "AsyncBlock"}

\* C12: in every state, the capture list in the Meta of a closure or async
\* block is the capture list of the BuildEntry pushed for it and the capture
\* list it was indexed with, name by name in the same order; and a
\* construction site that found the Meta of its closure has read that list.
C12_CaptureStability ==
    /\ \A i \in InMeta :
          meta[i].kind.tag \in CaptureKinds
              => /\ \E k \in DOMAIN enqueued :
                       /\ enqueued[k].item = i
                       /\ enqueued[k].build.captures = meta[i].kind.captures
                 /\ \A k \in DOMAIN enqueued :
                       enqueued[k].item = i
                           => enqueued[k].build.captures = meta[i].kind.captures
                 /\ \A d \in declared :
                       d.item = i
                           => d.entry.indexed.captures = meta[i].kind.captures
    /\ (last.op = "closure_site" /\ last.queried /\ last.item \in InMeta
            /\ meta[last.item].kind.tag = "Closure")
          => last.captures = meta[last.item].kind.captures

\* C12 witness: a construction site has read the two captures of a closure
\* from its Meta, and the closure's BuildEntry is waiting in the queue.
C12_Witness ==
    /\ last.op = "closure_site"
    /\ last.ret.tag = "Ok"
    /\ last.captures = <<"x", "y">>
    /\ \E k \in DOMAIN queue : queue[k].item = last.item

\* The used flag the meta queries of a step are made with.
StepUsed(l) ==
    IF l.op = "query_meta" THEN l.used
    ELSE IF l.op = "queue_unused_entries" THEN "Unused"
    ELSE "Used"

\* The positions in the history of pushes of the entries for an item.
PushesOf(pushes, item) == {k \in DOMAIN pushes : pushes[k].item = item}

\* The values of the consts of the programs that have one.
ConstValues == ("K" :> 7) @@ ("A" :> 1) @@ ("B" :> 1) @@ ("W" :> 2)

\* C13: a step that resolves an indexed const (directly, or nested through a
\* reference from another const) caches a Const Meta with the evaluated
\* value, and pushes one UnusedConst BuildEntry for the const, marked unused
\* and carrying its IR, exactly when the query was marked Unused; a used
\* query pushes none for it, and neither does an evaluation that fails.
C13_UnusedConstEnqueued ==
    [][\A i \in InIndex \ InMeta :
          (indexed[i].indexed.tag = "Const" /\ i \notin DOMAIN indexed')
              => /\ i \in DOMAIN meta'
                    => /\ meta'[i].kind.tag = "Const"
                       /\ meta'[i].kind.const_value = ConstValues[i]
                       /\ Cardinality(PushesOf(enqueued', i)) =
                              IF StepUsed(last') = "Unused" THEN 1 ELSE 0
                       /\ \A k \in PushesOf(enqueued', i) :
                              /\ enqueued'[k].build =
                                    [tag |-> "UnusedConst", ir |-> indexed[i].indexed.ir]
                              /\ enqueued'[k].used = "Unused"
                              /\ k > Len(enqueued)
                 /\ i \notin DOMAIN meta' => PushesOf(enqueued', i) = {}]_vars

\* C13 witness: an unused query of const B = A has resolved A on the way, and
\* both have their UnusedConst entry, A's first.
C13_Witness ==
    /\ last.op = "query_meta"
    /\ last.used = "Unused"
    /\ last.item = "B"
    /\ last.ret.tag = "Some"
    /\ last.ret.meta.kind.const_value = 1
    /\ last.depth = 2
    /\ Len(enqueued) = 2
    /\ enqueued[1].item = "A" /\ enqueued[1].build.tag = "UnusedConst"
    /\ enqueued[2].item = "B" /\ enqueued[2].build.tag = "UnusedConst"

\* C14: the IR of no const item is evaluated twice; a meta query for a const
\* whose Meta is cached constructs no interpreter and answers the cached
\* Meta; and only the IR of an item taken out of the Index is evaluated.
C14_ConstEvaluatedOnce ==
    /\ [](\A a, b \in DOMAIN evals : evals[a] = evals[b] => a = b)
    /\ [][/\ (last'.op = "query_meta" /\ last'.item \in InMeta
                  /\ meta[last'.item].kind.tag = "Const")
              => /\ evals' = evals
                 /\ last'.ret = RetSome(meta[last'.item])
          /\ \A k \in DOMAIN evals' :
                k > Len(evals) => (evals'[k] \in InIndex /\ evals'[k] \notin InMeta)
          /\ Len(evals) <= Len(evals')
          /\ SubSeq(evals', 1, Len(evals)) = evals]_vars

\* C14 witness: const A was evaluated by its own query, const B = A by a
\* later one that found A in the cache, and A was queried once more.
C14_Witness ==
    /\ evals = <<"A", "B">>
    /\ last.op = "query_meta"
    /\ last.item = "A"
    /\ last.ret.tag = "Some"

\* C15 as stated: the meta query of the indexed self-referential const
\* Z = Z + 1 ends with the error BudgetExceeded, reported at the reference
\* to Z.
C15_SelfRefBudgetExceeded ==
    [][(last'.op = "query_meta" /\ last'.item = "Z" /\ "Z" \in InIndex \ InMeta)
        => last'.ret = IrError("BudgetExceeded", IrRef("Z"))]_vars

\* C16: a meta query for an item that is neither in the Meta cache nor in
\* the Index answers None, and leaves the Index, the Meta cache and the build
\* queue as they were.
C16_UnknownItemIsNone ==
    [][(last'.op = "query_meta" /\ last'.item \notin InIndex \cup InMeta)
        => /\ last'.ret = RetNone
           /\ indexed' = indexed
           /\ meta' = meta
           /\ queue' = queue
           /\ enqueued' = enqueued]_vars

\* C16 witness: an unknown item was queried while the Index, the Meta cache
\* and the build queue all held something, and the answer was None.
C16_Witness ==
    /\ last.op = "query_meta"
    /\ last.item \notin InIndex \cup InMeta
    /\ last.ret = RetNone
    /\ InIndex # {}
    /\ InMeta # {}
    /\ queue # <<>>

\* The calls of visit_meta, of a sequence of calls, made for an item.
VisitsOf(visited, item) ==
    {k \in DOMAIN visited : MetaItem(visited[k].meta) = item}

\* C17: a call of queue_unused_entries that succeeds leaves, for every
\* Function, Closure or AsyncBlock that was in the Index when it ran, the
\* item's Meta in the cache, one new BuildEntry for the item marked unused,
\* and one call of visit_meta for the item, with that Meta and the source id
\* and span of the item's entry.
C17_UnusedEntriesQueuedAndVisited ==
    [][(last'.op = "queue_unused_entries" /\ last'.ret.tag = "Ok")
        => \A i \in InIndex :
              indexed[i].indexed.tag \in BuiltKinds
                  => /\ i \in DOMAIN meta'
                     /\ i \notin DOMAIN indexed'
                     /\ Cardinality({k \in PushesOf(enqueued', i) :
                                        k > Len(enqueued)}) = 1
                     /\ \A k \in PushesOf(enqueued', i) :
                            k > Len(enqueued)
                                => /\ enqueued'[k].used = "Unused"
                                   /\ enqueued'[k].build = indexed[i].indexed
                     /\ Cardinality(VisitsOf(last'.visited, i)) = 1
                     /\ \A k \in VisitsOf(last'.visited, i) :
                            /\ last'.visited[k].meta = meta'[i]
                            /\ last'.visited[k].source_id = indexed[i].source_id
                            /\ last'.visited[k].span = indexed[i].span]_vars

\* The construction site compiled by a step found the Meta of a closure.
SiteOfClosure(l, cache) ==
    /\ l.op = "closure_site"
    /\ l.item \in DOMAIN cache
    /\ cache[l.item].kind.tag = "Closure"

\* C18: a construction site whose value is needed and whose Meta is a
\* Closure with no captures emits one instruction, LoadFn with the type hash
\* of the closure's item, and so no Copy and no Closure.
C18_NoCapturesLoadFn ==
    [][(SiteOfClosure(last', meta') /\ last'.needs
            /\ meta'[last'.item].kind.captures = <<>>)
        => /\ last'.ret = Ok("unit")
           /\ last'.asm = <<[op |-> "LoadFn", hash |-> TypeHash(last'.item)]>>
           /\ TypeHash(last'.item) = meta'[last'.item].kind.type_of]_vars

\* C18 witness: the construction site of || 1 has resolved the closure from
\* the Index and emitted LoadFn.
C18_Witness ==
    /\ last.op = "closure_site"
    /\ last.item = "main::c1"
    /\ last.needs
    /\ Len(last.asm) = 1
    /\ last.asm[1].op = "LoadFn"
    /\ \E k \in DOMAIN queue : queue[k].item = "main::c1" /\ queue[k].used = "Used"

\* The instructions of a construction site with captures that all resolve:
\* one Copy per capture, in the order of the capture list, from the slot the
\* name has in the enclosing scope, then Closure with the number of captures.
SiteInstructions(scope, hash, captures) ==
    [k \in 1..Len(captures) + 1 |->
        IF k <= Len(captures)
        THEN [op |-> "Copy",
              offset |-> (CHOOSE j \in DOMAIN scope : scope[j] = captures[k]) - 1]
        ELSE [op |-> "Closure", hash |-> hash, count |-> Len(captures)]]

\* What C19 says of a construction site: the copies and Closure when every
\* capture resolves, else a failure with no Closure instruction.
SiteEmitsEnvironment(l, captures) ==
    IF \A k \in DOMAIN captures : captures[k] \in Slots(l.scope)
    THEN /\ l.ret = Ok("unit")
         /\ l.asm = SiteInstructions(l.scope, TypeHash(l.item), captures)
    ELSE /\ l.ret.tag = "Err"
         /\ \A k \in DOMAIN l.asm : l.asm[k].op # "Closure"

\* C19 as stated: every construction site whose Meta has at least one
\* capture emits the copies and Closure, or fails without a Closure.
C19_CapturesCopiedThenClosure ==
    [][(SiteOfClosure(last', meta') /\ meta'[last'.item].kind.captures # <<>>)
        => SiteEmitsEnvironment(last', meta'[last'.item].kind.captures)]_vars

\* C19 as amended: every construction site whose value is needed and whose
\* Meta has at least one capture emits the copies and Closure, or fails
\* without a Closure; a site whose value is not needed emits nothing.
C19_NeededCapturesCopiedThenClosure ==
    [][/\ (SiteOfClosure(last', meta') /\ last'.needs
               /\ meta'[last'.item].kind.captures # <<>>)
           => SiteEmitsEnvironment(last', meta'[last'.item].kind.captures)
       /\ (last'.op = "closure_site" /\ ~last'.needs)
           => last'.ret = Ok("unit") /\ last'.asm = <<>>]_vars

\* C19 witness: the site of the closure capturing x and y, in a scope with
\* y in slot 0 and x in slot 2, has emitted Copy 2, Copy 0, Closure.
C19_Witness ==
    /\ last.op = "closure_site"
    /\ last.needs
    /\ last.captures = <<"x", "y">>
    /\ last.ret.tag = "Ok"
    /\ Len(last.asm) = 3
    /\ last.asm[1] = [op |-> "Copy", offset |-> 2]
    /\ last.asm[2] = [op |-> "Copy", offset |-> 0]
    /\ last.asm[3].op = "Closure" /\ last.asm[3].count = 2

\* The slots the parameters of a closure are declared in: the name of a
\* named parameter, "_" for a wildcard.
ParamSlots(args) ==
    [k \in DOMAIN args |-> IF args[k].kind = "Ident" THEN args[k].name ELSE "_"]

\* C20: when the emitter has taken the BuildEntry of a closure and compiled
\* its body without error, the instructions are: PushTuple first if and only
\* if the closure has captures; then the instructions of the body; then
\* Clean { count } if and only if count is not 0, count being the number of
\* parameters plus the number of captures; then Return, last. The variables
\* declared are the parameters, then the captures in capture-list order.
C20_ClosureBodyShape ==
    (/\ last.op = "pop_front"
     /\ emitted[Len(emitted)].build.tag = "Closure"
     /\ last.ret.tag = "Ok")
        => LET build == emitted[Len(emitted)].build
               count == Len(build.ast.args) + Len(build.captures)
               head == IF build.captures # <<>>
                       THEN <<[op |-> "PushTuple"]>> ELSE <<>>
               body == CompileExpr(last.scope, build.ast.body).asm
               clean == IF count # 0
                        THEN <<[op |-> "Clean", count |-> count]>> ELSE <<>>
           IN  /\ last.scope = ParamSlots(build.ast.args) \o build.captures
               /\ last.asm = head \o body \o clean \o <<[op |-> "Return"]>>
               /\ (last.asm[1].op = "PushTuple") <=> (build.captures # <<>>)
               /\ \A k \in DOMAIN last.asm :
                      /\ last.asm[k].op = "PushTuple" => k = 1
                      /\ last.asm[k].op = "Return" => k = Len(last.asm)
                      /\ last.asm[k].op = "Clean"
                            => /\ k = Len(last.asm) - 1
                               /\ last.asm[k].count = count
               /\ (\E k \in DOMAIN last.asm : last.asm[k].op = "Clean")
                      <=> count # 0

\* C20 witness: the body of |a, _| y, capturing x and y, was compiled to
\* PushTuple, Copy 3, Clean 4, Return.
C20_Witness ==
    /\ last.op = "pop_front"
    /\ last.item = "main::c2"
    /\ last.ret.tag = "Ok"
    /\ last.asm = << [op |-> "PushTuple"], [op |-> "Copy", offset |-> 3],
                     [op |-> "Clean", count |-> 4], [op |-> "Return"] >>

\* C21: when the emitter has taken the BuildEntry of a closure and compiled
\* its body, a build that completed passed Queued, BodyCompiling,
\* BodyCompiled and Finalised in that order, none skipped; and a build that
\* failed left the scope stack as it was before the build started.
C21_BuildStatesAndScopeRestored ==
    (/\ last.op = "pop_front"
     /\ emitted[Len(emitted)].build.tag = "Closure")
        => /\ last.ret.tag = "Ok"
                => last.states = <<"Queued", "BodyCompiling", "BodyCompiled",
                                   "Finalised">>
           /\ last.ret.tag = "Err" => last.scopes = NewScopes

\* C22: at a construction site whose value is needed, when the item is in
\* neither the Index nor the Meta cache the meta lookup has no answer and the
\* site fails with MissingType carrying the item; when the Meta of the item
\* is of a kind other than Closure the site fails with ExpectedMeta; in both
\* cases no instruction is emitted.
C22_MissingTypeOrExpectedMeta ==
    [][(last'.op = "closure_site" /\ last'.needs)
        => /\ last'.item \notin InIndex \cup InMeta
                => /\ last'.ret = [tag |-> "Err", kind |-> "MissingType",
                                   item |-> last'.item]
                   /\ last'.asm = <<>>
           /\ (/\ last'.item \in DOMAIN meta'
               /\ meta'[last'.item].kind.tag # "Closure")
                => /\ last'.ret.tag = "Err"
                   /\ last'.ret.kind = "ExpectedMeta"
                   /\ last'.ret.got = meta'[last'.item].kind.tag
                   /\ last'.ret.expected = "a closure"
                   /\ last'.asm = <<>>]_vars

\* C22 witness: the site of the async block main::b0, taken for a closure
\* expression, failed with ExpectedMeta and emitted nothing.
C22_Witness ==
    /\ last.op = "closure_site"
    /\ last.needs
    /\ last.item = "main::b0"
    /\ last.ret.tag = "Err"
    /\ last.ret.kind = "ExpectedMeta"
    /\ last.asm = <<>>
    /\ "main::b0" \in InMeta

\* C23: a call of queue_unused_entries that answers a boolean answers true
\* exactly when it removed at least one entry from the Index: with the Index
\* empty it answers false and changes nothing, and it never answers true
\* when no entry was removed.
C23_TrueIffDrained ==
    [][(last'.op = "queue_unused_entries" /\ last'.ret.tag = "Ok")
        => /\ last'.ret.val <=> (InIndex \ DOMAIN indexed' # {})
           /\ InIndex = {}
                => /\ last'.ret.val = FALSE
                   /\ UNCHANGED <<indexed, meta, queue>>]_vars

\* The Meta kind the body shape and the parent of a struct or variant
\* declaration determine.
ShapeKindHolds(kind, d) ==
    LET body == d.entry.indexed.ast
        variant == d.entry.indexed.tag = "Variant"
    IN  /\ kind.type_of = TypeHash(d.item)
        /\ variant => kind.enum_item = d.entry.indexed.enum_item
        /\ body.shape = "EmptyBody"
              => /\ kind.tag = IF variant THEN "TupleVariant" ELSE "Tuple"
                 /\ kind.tuple = [item |-> d.item, args |-> 0,
                                  hash |-> TypeHash(d.item)]
        /\ body.shape = "TupleBody"
              => /\ kind.tag = IF variant THEN "TupleVariant" ELSE "Tuple"
                 /\ kind.tuple = [item |-> d.item, args |-> Len(body.fields),
                                  hash |-> TypeHash(d.item)]
        /\ body.shape = "StructBody"
              => /\ kind.tag = IF variant THEN "ObjectVariant" ELSE "Struct"
                 /\ kind.object =
                        [item |-> d.item,
                         fields |-> {body.fields[k] : k \in DOMAIN body.fields}]

\* C24: the Meta cached for a struct or variant declaration has the kind its
\* body shape and parent determine: an empty body a tuple meta with args 0,
\* a tuple body a tuple meta with args the number of fields, a named-field
\* body an object meta with the set of field names; with a parent enum the
\* kind is TupleVariant or ObjectVariant carrying the enum item, without one
\* Tuple or Struct; type_of and the tuple hash are the type hash of the item.
C24_KindByShapeAndParent ==
    \A i \in InMeta :
        LET tag == meta[i].kind.tag
        IN  /\ \A d \in {e \in prog : e.item = i
                             /\ e.entry.span = meta[i].source.span
                             /\ e.entry.indexed.tag \in {"Struct", "Variant"}} :
                   ShapeKindHolds(meta[i].kind, d)
            /\ tag \in {"Tuple", "TupleVariant", "Struct", "ObjectVariant"}
                   => \E d \in prog :
                         /\ d.item = i
                         /\ d.entry.span = meta[i].source.span
                         /\ d.entry.indexed.tag \in {"Struct", "Variant"}

\* C24 witness: the Metas of the tuple variant E::B(i64), the object variant
\* E::C { a, b } and the struct S { a, a } are cached.
C24_Witness ==
    /\ {"E::B", "E::C", "S"} \subseteq InMeta
    /\ meta["E::B"].kind.tag = "TupleVariant"
    /\ meta["E::B"].kind.tuple.args = 1
    /\ meta["E::C"].kind.tag = "ObjectVariant"
    /\ meta["E::C"].kind.object.fields = {"a", "b"}
    /\ meta["S"].kind.tag = "Struct"
    /\ meta["S"].kind.object.fields = {"a"}

\* The positions of the self parameters of a parameter list.
SelfArgs(args) == {k \in DOMAIN args : args[k].kind = "SelfValue"}

AsyncBlockMetas == {i \in InMeta : meta[i].kind.tag = "AsyncBlock"}

\* C26 as stated: the Meta of an async block records call = Async, together
\* with the capture list the block was indexed with.
C26_CallRecordedInMeta ==
    \A i \in AsyncBlockMetas :
        /\ "call" \in DOMAIN meta[i].kind
        /\ meta[i].kind.call = "Async"
        /\ \A d \in declared :
               d.item = i => meta[i].kind.captures = d.entry.indexed.captures

\* C26 amended: the Meta of an async block records the type, the item and
\* the capture list the block was indexed with, and no calling convention;
\* the call kind given at index time is carried by the BuildEntry pushed for
\* the block, together with the same capture list.
C26_CallCarriedByBuildEntry ==
    \A i \in AsyncBlockMetas :
        /\ DOMAIN meta[i].kind = {"tag", "type_of", "item", "captures"}
        /\ \A d \in declared :
               d.item = i
                  => /\ meta[i].kind.captures = d.entry.indexed.captures
                     /\ \E k \in DOMAIN enqueued :
                           /\ enqueued[k].item = i
                           /\ enqueued[k].build.tag = "AsyncBlock"
                           /\ enqueued[k].build.call = d.entry.indexed.call
                           /\ enqueued[k].build.captures = meta[i].kind.captures

\* C26 witness: the async block main::b0, indexed with call Async and the
\* capture x, has its Meta cached and its BuildEntry pushed.
C26_Witness ==
    /\ "main::b0" \in AsyncBlockMetas
    /\ meta["main::b0"].kind.captures = <<"x">>
    /\ \E k \in DOMAIN enqueued :
          /\ enqueued[k].item = "main::b0"
          /\ enqueued[k].build.call = "Async"

\* C27: an index insertion that fails with ItemConflict leaves the Index
\* unchanged: the entry stored for the item is the one stored before the
\* insertion, not the entry of the rejected duplicate.
C27_ConflictLeavesIndexUnchanged ==
    [][(last'.op = "index" /\ last'.ret.tag = "Err")
        => /\ indexed' = indexed
           /\ indexed'[last'.item].span = firstDef[last'.item]]_vars

\* The steps that make meta queries and record how deep they were nested.
QueryOps == {"query_meta", "queue_unused_entries"}

\* C28: an item being built is in neither the Index nor the Meta cache, so the
\* meta query its own build makes for it is answered None and its build is
\* not entered again: the query of the indexed self-referential const Z
\* evaluates Z once, fails because the reference resolves to no const, and
\* leaves Z in neither the Index nor the Meta cache. The meta queries made
\* inside an outermost query are nested no deeper than the number of items
\* in the Index when it started, and every meta query returns an answer.
C28_ReentrantQueryIsNone ==
    [][/\ (last'.op = "query_meta" /\ last'.item = "Z" /\ "Z" \in InIndex \ InMeta)
           => /\ last'.ret = IrError("NotConst", IrRef("Z"))
              /\ evals' = Append(evals, "Z")
              /\ last'.depth = 2
              /\ "Z" \notin DOMAIN indexed' \cup DOMAIN meta'
       /\ last'.op \in QueryOps
           => /\ last'.depth - 1 <= Cardinality(InIndex)
              /\ last'.ret.tag \in {"Some", "None", "Ok", "Err"}]_vars

\* C28 witness: the query of Z = Z + 1 has returned, with one meta query
\* nested in it and Z evaluated once, and Z is neither indexed nor cached.
C28_Witness ==
    /\ last.op = "query_meta"
    /\ last.item = "Z"
    /\ last.depth = 2
    /\ last.ret = IrError("NotConst", IrRef("Z"))
    /\ evals = <<"Z">>
    /\ "Z" \notin InIndex \cup InMeta
    /\ "Z" \in names

\* The closures in an Index.
IndexedClosures(idx) == {i \in DOMAIN idx : idx[i].indexed.tag = "Closure"}

\* C29: a construction site whose value is not needed pushes no instruction
\* and makes no meta query, it only records the not-used warning, so the
\* Index, the Meta cache and the build queue are as they were and an indexed
\* closure stays in the Index; and a call of queue_unused_entries that
\* succeeds resolves every closure still in the Index: its Meta is cached, it
\* has left the Index, and a BuildEntry marked Unused was pushed for it.
C29_UnneededClosureLeftForUnusedScan ==
    [][/\ (last'.op = "closure_site" /\ ~last'.needs)
           => /\ last'.ret = Ok("unit")
              /\ last'.asm = <<>>
              /\ ~last'.queried
              /\ last'.warned
              /\ indexed' = indexed
              /\ meta' = meta
              /\ queue' = queue
              /\ enqueued' = enqueued
       /\ (last'.op = "queue_unused_entries" /\ last'.ret.tag = "Ok")
           => \A i \in IndexedClosures(indexed) :
                 /\ i \notin DOMAIN indexed'
                 /\ i \in DOMAIN meta'
                 /\ \E k \in DOMAIN enqueued' :
                       /\ k > Len(enqueued)
                       /\ enqueued'[k].item = i
                       /\ enqueued'[k].build.tag = "Closure"
                       /\ enqueued'[k].used = "Unused"]_vars

\* C29 witness: the site of an indexed closure was compiled with its value
\* not needed; nothing was pushed or queried, and the closure is still in the
\* Index, not in the Meta cache.
C29_Witness ==
    /\ last.op = "closure_site"
    /\ ~last.needs
    /\ last.warned
    /\ last.asm = <<>>
    /\ last.item \in IndexedClosures(indexed)
    /\ last.item \notin InMeta
    /\ queue = <<>>

====
